---- MODULE Spec2Model ----
(***************************************************************************)
(* The acquisition layer of energy-analyzer: EnergyDataFetcher             *)
(* (src/data_fetcher.py) with its TTL cache, its retry loops and its       *)
(* fallback synthesizer, driven by callers that invoke fetch_realtime_data *)
(* and get_llm_recommendations.                                            *)
(*                                                                         *)
(* Numbers.  Python floats are modelled exactly: an efficiency and a       *)
(* production are integers counting 1/120 (EffUnit), a cost is a fraction  *)
(* [num, den], and a mean is a fraction as well.  Time is counted in       *)
(* seconds: `now` is time.time() measured from the construction of the     *)
(* fetcher, `start + now` is the wall clock datetime.now() in seconds of   *)
(* the day.                                                                *)
(***************************************************************************)
EXTENDS Integers, Sequences, FiniteSets, TLC

VARIABLES
    now,         \* time.time(), seconds since the fetcher was constructed
    start,       \* wall-clock second of the day at construction
    cache,       \* self.cache: key -> entry
    call,        \* per thread: the call in progress (arguments, loop position, result)
    prev,        \* per thread: the call that thread completed before the current one
    ncalls,      \* calls started so far
    llm_answer,  \* how the completion endpoint currently answers a POST
    app          \* EnergyApp: its update loops, its pending timers, what it scheduled

vars == <<now, start, cache, call, prev, ncalls, llm_answer, app>>

----------------------------------------------------------------------------
(* Bounds of the model *)

MaxNow == 300
MaxCalls == 2
MaxRetriesArg == 3
\* update loops started at most
MaxLoops == 2

\* steps by which the clock advances between two steps of the program
TickSteps == {150}
\* wall-clock seconds of the day at which the fetcher may be constructed (23:55:00)
StartTimes == {86100}
\* the threads that may call into the fetcher
Threads == {"t1", "t2"}
\* the thread of the sequential specification
SeqThreads == {"t1"}
\* the sources callers ask for: a known one and one that ENERGY_SOURCES lacks
CallSources == {"Solar", "Hydro"}
\* the analysis texts callers ask recommendations for
CallTexts == {"analysis A", "analysis B"}

----------------------------------------------------------------------------
(* constants.py *)

ENERGY_SOURCES ==
    ("Solar" :> [base_prod |-> 1000, base_cost |-> 10]) @@
    ("Wind" :> [base_prod |-> 800, base_cost |-> 8]) @@
    ("Coal" :> [base_prod |-> 500, base_cost |-> 15]) @@
    ("Natural Gas" :> [base_prod |-> 600, base_cost |-> 12])

\* base_cost is written in hundredths: 0.1 is 10
CostUnit == 10 * 10
\* efficiencies and productions count 1/120: tenths, of twelfths of the day
EffUnit == 12 * 10
Hours == 0..23

----------------------------------------------------------------------------
(* exact arithmetic *)

RECURSIVE GCD(_, _)
GCD(a, b) == IF b = 0 THEN a ELSE GCD(b, a % b)

LCM(a, b) == (a \div GCD(a, b)) * b

\* the fraction n/d in lowest terms
Rat(n, d) == [num |-> n \div GCD(n, d), den |-> d \div GCD(n, d)]

RatAdd(a, b) ==
    LET l == LCM(a.den, b.den)
    IN  Rat(a.num * (l \div a.den) + b.num * (l \div b.den), l)

RatEq(a, b) == Rat(a.num, a.den) = Rat(b.num, b.den)

\* sum(d.values()) of a dict of integers keyed by the hours 0..n
RECURSIVE SumTo(_, _)
SumTo(f, n) == IF n < 0 THEN 0 ELSE f[n] + SumTo(f, n - 1)

\* sum(d.values()) of a dict of fractions keyed by the hours 0..n
RECURSIVE RatSumTo(_, _)
RatSumTo(f, n) == IF n = 0 THEN f[0] ELSE RatAdd(RatSumTo(f, n - 1), f[n])

Pow2(n) == IF n = 0 THEN 1 ELSE IF n = 1 THEN 2 ELSE IF n = 2 THEN 4
           ELSE IF n = 3 THEN 8 ELSE 16

----------------------------------------------------------------------------
(* EnergyDataFetcher.__init__ *)

cache_duration == 300

\* the attributes __init__ assigns on self
InitAttrs == {"api_key", "session", "eia_headers", "cache", "cache_duration"}

----------------------------------------------------------------------------
(* the pure helpers of the fetcher *)

Abs(x) == IF x < 0 THEN -x ELSE x

\* _calculate_efficiency with the bounds of the Solar window left out of it
EfficiencyOpenWindow(source, hour) ==
    IF source = "Solar"
    THEN IF 6 < hour /\ hour < 18 THEN 8 * (12 - Abs(hour - 12)) ELSE 12
    ELSE IF source = "Wind"
    THEN 84 + (hour % 4) * 12
    ELSE 102

\* _calculate_efficiency, in 1/120
_calculate_efficiency(source, hour) ==
    IF source = "Solar"
    THEN IF 6 <= hour /\ hour <= 18 THEN 8 * (12 - Abs(hour - 12)) ELSE 12
    ELSE IF source = "Wind"
    THEN 84 + (hour % 4) * 12
    ELSE 102

\* a base_costs table that has drifted from ENERGY_SOURCES
BaseCostsDrifted ==
    ("Solar" :> 10) @@ ("Wind" :> 8) @@ ("Coal" :> 14) @@ ("Natural Gas" :> 12)

\* base_costs.get(source, 0.1) of _calculate_cost, in hundredths
base_costs ==
    ("Solar" :> 10) @@ ("Wind" :> 8) @@ ("Coal" :> 15) @@ ("Natural Gas" :> 12)

\* _calculate_cost: base_cost / (efficiency if efficiency > 0 else 1)
_calculate_cost(source, efficiency, production) ==
    LET base_cost == IF source \in DOMAIN base_costs THEN base_costs[source] ELSE 10
    IN  Rat(base_cost * EffUnit,
            CostUnit * (IF efficiency > 0 THEN efficiency ELSE EffUnit))

\* ENERGY_SOURCES.get(source, {'base_prod': 500, 'base_cost': 0.1})
source_config(source) ==
    IF source \in DOMAIN ENERGY_SOURCES
    THEN ENERGY_SOURCES[source]
    ELSE [base_prod |-> 500, base_cost |-> 10]

\* datetime.now().hour
current_hour == ((start + now) \div 3600) % 24

\* hours = [(current_hour - i) % 24 for i in range(24)]: the hour i hours ago at
\* position i (Python counts i from 0, the sequence from 1)
hours == [i \in 1..24 |-> (current_hour - (i - 1)) % 24]

\* the keys of a dict filled by one assignment per element of hours
HourKeys == {hours[i] : i \in 1..24}

\* the dict both builders return, with the aggregates of the non-hourly
\* _get_fallback_data: the values of the current hour, not the means
SnapshotOfCurrentHour(hourly_production, hourly_efficiency, hourly_cost) ==
    [timestamp |-> start + now,
     production |-> Rat(hourly_production[current_hour], 1),
     efficiency |-> Rat(hourly_efficiency[current_hour], 1),
     cost |-> hourly_cost[current_hour],
     hourly_production |-> hourly_production,
     hourly_efficiency |-> hourly_efficiency,
     hourly_cost |-> hourly_cost]

\* the dict both builders return
Snapshot(hourly_production, hourly_efficiency, hourly_cost) ==
    [timestamp |-> start + now,
     production |-> Rat(SumTo(hourly_production, 23), 24),
     efficiency |-> Rat(SumTo(hourly_efficiency, 23), 24),
     cost |-> LET s == RatSumTo(hourly_cost, 23) IN Rat(s.num, s.den * 24),
     hourly_production |-> hourly_production,
     hourly_efficiency |-> hourly_efficiency,
     hourly_cost |-> hourly_cost]

_get_fallback_hourly_data(source) ==
    LET eff == [hour \in HourKeys |-> _calculate_efficiency(source, hour)]
    IN  Snapshot([hour \in HourKeys |-> source_config(source).base_prod * eff[hour]],
                 eff,
                 [hour \in HourKeys |->
                     Rat(source_config(source).base_cost * EffUnit,
                         CostUnit * (IF eff[hour] > 0 THEN eff[hour] ELSE EffUnit))])

\* api_data[hour] if hour < len(api_data) else api_data[-1]  (Python indexes from 0)
data_point(api_data, hour) ==
    IF hour < Len(api_data) THEN api_data[hour + 1] ELSE api_data[Len(api_data)]

\* _process_hourly_data: float(value) raises on a value that is no number, and the
\* except clause then returns the fallback
_process_hourly_data(source, api_data) ==
    IF api_data = <<>> \/ \E i \in 1..Len(api_data) : ~api_data[i].numeric
    THEN _get_fallback_hourly_data(source)
    ELSE LET eff == [hour \in HourKeys |-> _calculate_efficiency(source, hour)]
             prod == [hour \in HourKeys |-> data_point(api_data, hour).value * EffUnit]
         IN  Snapshot(prod, eff,
                      [hour \in HourKeys |-> _calculate_cost(source, eff[hour], prod[hour])])

\* whether _process_hourly_data ended in its except clause
ProcessFellBack(api_data) ==
    api_data = <<>> \/ \E i \in 1..Len(api_data) : ~api_data[i].numeric

\* _is_cache_valid with the comparison turned round
IsCacheValidInverted(source) ==
    IF source \in DOMAIN cache
    THEN now - cache[source].timestamp > cache_duration
    ELSE FALSE

\* _is_cache_valid counting an entry of age cache_duration as valid
IsCacheValidInclusive(source) ==
    IF source \in DOMAIN cache
    THEN now - cache[source].timestamp <= cache_duration
    ELSE FALSE

_is_cache_valid(source) ==
    IF source \in DOMAIN cache
    THEN now - cache[source].timestamp < cache_duration
    ELSE FALSE

\* _update_cache purging the entries that have gone stale as it writes
UpdateCachePurging(source, data) ==
    [k \in {x \in DOMAIN cache : now - cache[x].timestamp < cache_duration}
            \cup {source} |->
        IF k = source THEN [timestamp |-> now, data |-> data] ELSE cache[k]]

\* _update_cache leaving an entry that is still fresh as it is
UpdateCacheFirstWins(source, data) ==
    IF source \in DOMAIN cache /\ now - cache[source].timestamp < cache_duration
    THEN cache
    ELSE [k \in DOMAIN cache \cup {source} |->
             IF k = source THEN [timestamp |-> now, data |-> data] ELSE cache[k]]

\* the cache after _update_cache(source, data)
_update_cache(source, data) ==
    [k \in DOMAIN cache \cup {source} |->
        IF k = source THEN [timestamp |-> now, data |-> data] ELSE cache[k]]

----------------------------------------------------------------------------
(* the two upstream services *)

Point(v) == [value |-> v, numeric |-> TRUE]
\* a record whose value float() rejects
BadPoint == [value |-> 0, numeric |-> FALSE]

\* response.json()['response']['data'] of a 200: most recent first
ApiData == {<<>>, <<Point(30), Point(10), Point(20)>>, <<Point(7), BadPoint>>}

Resp(status, json, data) ==
    [kind |-> "response", status |-> status, json |-> json, data |-> data]
Timeout == [kind |-> "timeout", status |-> 0, json |-> FALSE, data |-> <<>>]
ConnectionError == [kind |-> "connection", status |-> 0, json |-> FALSE, data |-> <<>>]

\* what session.get may end in
EiaOutcomes ==
    {Resp(200, TRUE, d) : d \in ApiData} \cup {Resp(200, FALSE, <<>>)}
    \cup {Resp(s, TRUE, <<>>) : s \in {404, 429, 500, 503}}
    \cup {Timeout, ConnectionError}

\* the completion endpoint: a 200 carries choices[0].message.content, another
\* status may carry error.message, a 429 may carry a Retry-After header
LlmResp(status, content, error, has_retry_after, retry_after) ==
    [kind |-> "response", status |-> status, content |-> content, error |-> error,
     has_retry_after |-> has_retry_after, retry_after |-> retry_after]
LlmTimeout == [LlmResp(0, "", "", FALSE, 0) EXCEPT !.kind = "timeout"]
LlmConnectionError == [LlmResp(0, "", "", FALSE, 0) EXCEPT !.kind = "connection"]
\* a 200 whose body has no choices[0].message.content
LlmMalformed == [LlmResp(200, "", "", FALSE, 0) EXCEPT !.kind = "malformed"]

\* what session.post may end in
LlmOutcomes ==
    {LlmResp(200, "Shift load to off-peak hours.", "", FALSE, 0),
     LlmResp(401, "", "Authentication Fails", FALSE, 0),
     LlmResp(429, "", "", FALSE, 0),
     LlmResp(429, "", "", TRUE, 5),
     LlmResp(500, "", "", FALSE, 0),
     LlmTimeout, LlmConnectionError, LlmMalformed}

----------------------------------------------------------------------------
(* get_llm_recommendations *)

rec_max_retries == 3
retry_delay == 2

\* hash(analysis_text): an int in Python, which no source name equals; the model
\* writes it as a string of its own, one per text
hash(analysis_text) ==
    IF analysis_text = "analysis A" THEN "hash(analysis A)" ELSE "hash(analysis B)"

AuthMsg == "API Authentication failed. Please check your API key configuration."
RateLimitMsg == "Rate limit exceeded. Please try again later."
TimeoutMsg == "Request timed out. Please try again."
NetworkMsg == "Network error occurred. Please check your internet connection."
ExhaustedMsg == "Failed to generate recommendations after multiple attempts."
_get_fallback_recommendations == "Basic Energy Management Recommendations: ..."

\* f"Unable to generate recommendations: {error_msg}", error_msg being
\* response.json().get('error', {}).get('message', 'Unknown error')
UnableMsg(error) ==
    IF error = ""
    THEN "Unable to generate recommendations: Unknown error"
    ELSE "Unable to generate recommendations: Authentication Fails"

\* the freshness test get_llm_recommendations makes itself
RecCacheFresh(cache_key) ==
    IF cache_key \in DOMAIN cache
    THEN now - cache[cache_key].timestamp < cache_duration
    ELSE FALSE

----------------------------------------------------------------------------
(* the calls *)

\* a 200 whose body is JSON with a non-empty data array
IsOk(o) == o.kind = "response" /\ o.status = 200 /\ o.json /\ o.data # <<>>

\* no answer received yet
NoOutcome == [kind |-> "none", status |-> 0]

\* the call's record of the answers it received: how many, the latest, whether
\* all were a 500, whether all were a 200 with data
Received(c, o) ==
    [c EXCEPT !.answers = c.answers + 1, !.last = o,
              !.all_500 = c.all_500 /\ o.kind = "response" /\ o.status = 500,
              !.all_ok = c.all_ok /\ IsOk(o)]

NoCall ==
    [op |-> "none", pc |-> "idle", arg |-> "", max_retries |-> 0, attempt |-> 0,
     result |-> "", ret |-> "",
     reqs |-> 0, slept |-> 0, t_call |-> 0, t_ret |-> 0,
     answers |-> 0, last |-> NoOutcome, all_500 |-> TRUE, all_ok |-> TRUE,
     fresh0 |-> FALSE]

\* what is remembered of a completed call once the thread makes its next one
NoPrev ==
    [op |-> "none", arg |-> "", reqs |-> 0, t_call |-> 0, t_ret |-> 0, miss_ok |-> FALSE]

\* the call found no fresh entry, had at least one attempt, and every answer it
\* got was a 200 with data
MissOk(c) ==
    /\ ~c.fresh0
    /\ c.max_retries >= 1
    /\ c.all_ok

Summary(c) ==
    [op |-> c.op, arg |-> c.arg, reqs |-> c.reqs, t_call |-> c.t_call,
     t_ret |-> c.t_ret, miss_ok |-> c.op = "fetch" /\ MissOk(c)]

\* a thread that is not inside a call: it made none yet, or its last one returned
\* or raised
Free(t) == call[t].pc \in {"idle", "done", "raised"}

\* return value: the call ends with `value`, through the return statement `ret`
Return(c, value, ret) ==
    [c EXCEPT !.pc = "done", !.result = value, !.ret = ret, !.t_ret = now]

\* an exception no except clause catches leaves the call
Raise(c, exc) == [c EXCEPT !.pc = "raised", !.ret = exc, !.t_ret = now]

\* an update loop that is not running
NoLoop == [pc |-> "off", idx |-> 1, successful_fetches |-> 0]

\* an application that runs no loop and has scheduled nothing
NoApp ==
    [loop |-> [t \in Threads |-> NoLoop], timers |-> <<>>, triggers |-> 0,
     started |-> 0, recs |-> 0, displays |-> 0, errors |-> 0, sources_data |-> {}]

TypeOK ==
    /\ now \in Nat
    /\ start \in StartTimes
    /\ ncalls \in 0..MaxCalls
    /\ \A t \in Threads : call[t].pc \in {"idle", "loop", "await", "done", "raised"}

Init ==
    /\ now = 0
    /\ start \in StartTimes
    /\ cache = <<>>
    /\ call = [t \in Threads |-> NoCall]
    /\ prev = [t \in Threads |-> NoPrev]
    /\ ncalls = 0
    /\ llm_answer = LlmTimeout
    /\ app = NoApp

\* time passes between two calls; inside a call the clock advances by the sleeps
\* alone (a controllable clock: requests answer at once)
Tick(d) ==
    /\ \A t \in Threads : Free(t)
    /\ now + d <= MaxNow
    /\ now' = now + d
    /\ UNCHANGED <<start, cache, call, prev, ncalls, llm_answer, app>>

\* a caller enters fetch_realtime_data(source, max_retries)
FetchCall(t, source, max_retries) ==
    /\ Free(t)
    /\ ncalls < MaxCalls
    /\ now <= MaxNow
    /\ ncalls' = ncalls + 1
    /\ prev' = [prev EXCEPT ![t] = Summary(call[t])]
    /\ call' = [call EXCEPT ![t] =
                   [NoCall EXCEPT !.op = "fetch", !.pc = "loop", !.arg = source,
                                  !.max_retries = max_retries, !.t_call = now,
                                  !.fresh0 = _is_cache_valid(source)]]
    /\ UNCHANGED <<now, start, cache, llm_answer, app>>

\* the head of the for loop, the cache check and session.get going out
FetchLoop(t) ==
    LET c == call[t] IN
    /\ c.op = "fetch" /\ c.pc = "loop"
    /\ call' = [call EXCEPT ![t] =
                   IF c.attempt >= c.max_retries
                   THEN Return(c, _get_fallback_hourly_data(c.arg), "exhausted")
                   ELSE IF _is_cache_valid(c.arg)
                   THEN Return(c, cache[c.arg].data, "cache")
                   ELSE [c EXCEPT !.pc = "await", !.reqs = c.reqs + 1]]
    /\ UNCHANGED <<now, start, cache, prev, ncalls, llm_answer, app>>

\* the exception the try body of fetch_realtime_data raises on outcome o:
\* session.get raises on a timeout or a connection failure, response.json() on
\* a body that is no JSON, and line 73 on a 200 without data
FetchRaised(o) ==
    IF o.kind = "timeout" THEN "Timeout"
    ELSE IF o.kind = "connection" THEN "ConnectionError"
    ELSE IF o.status = 200 /\ ~o.json THEN "JSONDecodeError"
    ELSE IF o.status = 200 /\ o.data = <<>> THEN "ValueError"
    ELSE "none"

\* fetch_realtime_data without its except Exception clause
FetchHandlerNarrow(exc) ==
    IF exc \in {"Timeout", "ConnectionError"} THEN "network" ELSE "none"

\* the except clause of fetch_realtime_data that catches exc
FetchHandler(exc) ==
    IF exc \in {"Timeout", "ConnectionError"} THEN "network" ELSE "unexpected"

\* a backoff of 1, 3, 6 seconds and so on
BackoffTriples(attempt) == IF attempt = 0 THEN 1 ELSE 3 * Pow2(attempt - 1)

\* time.sleep(2 ** attempt)
backoff(attempt) == Pow2(attempt)

\* the retry test counting one attempt too many
FetchRetriesOffByOne(o, attempt, max_retries) ==
    \/ FetchRaised(o) = "none" /\ o.status = 500 /\ attempt < max_retries
    \/ FetchRaised(o) # "none" /\ FetchHandler(FetchRaised(o)) = "network"
       /\ attempt < max_retries

\* the retry test retrying every status but 200
FetchRetriesAnyError(o, attempt, max_retries) ==
    \/ FetchRaised(o) = "none" /\ o.status # 200 /\ attempt < max_retries - 1
    \/ FetchRaised(o) # "none" /\ FetchHandler(FetchRaised(o)) = "network"
       /\ attempt < max_retries - 1

\* the retry test retrying a 200 that failed validation as well
FetchRetriesInvalid(o, attempt, max_retries) ==
    \/ FetchRaised(o) = "none" /\ o.status = 500 /\ attempt < max_retries - 1
    \/ FetchRaised(o) # "none" /\ FetchHandler(FetchRaised(o)) \in {"network", "unexpected"}
       /\ attempt < max_retries - 1

\* whether fetch_realtime_data sleeps and retries after outcome o of `attempt`
FetchRetries(o, attempt, max_retries) ==
    \/ FetchRaised(o) = "none" /\ o.status = 500 /\ attempt < max_retries - 1
    \/ FetchRaised(o) # "none" /\ FetchHandler(FetchRaised(o)) = "network"
       /\ attempt < max_retries - 1

\* session.get ends in outcome o and the rest of the loop body runs
FetchResponse(t, o) ==
    LET c == Received(call[t], o)
        exc == FetchRaised(o)
    IN
    /\ call[t].op = "fetch" /\ call[t].pc = "await"
    /\ IF exc = "none" /\ o.status = 200
       THEN LET hourly_data == _process_hourly_data(c.arg, o.data) IN
            /\ cache' = _update_cache(c.arg, hourly_data)
            /\ call' = [call EXCEPT ![t] = Return(c, hourly_data, "live")]
            /\ now' = now
       ELSE IF FetchRetries(o, c.attempt, c.max_retries)
       THEN /\ now' = now + backoff(c.attempt)
            /\ call' = [call EXCEPT ![t] =
                           [c EXCEPT !.pc = "loop", !.attempt = c.attempt + 1,
                                     !.slept = c.slept + backoff(c.attempt)]]
            /\ cache' = cache
       ELSE /\ call' = [call EXCEPT ![t] =
                           IF exc = "none"
                           THEN Return(c, _get_fallback_hourly_data(c.arg), "api_error")
                           ELSE IF FetchHandler(exc) \in {"network", "unexpected"}
                           THEN Return(c, _get_fallback_hourly_data(c.arg),
                                       FetchHandler(exc))
                           ELSE Raise(c, exc)]
            /\ cache' = cache
            /\ now' = now
    /\ UNCHANGED <<start, prev, ncalls, llm_answer, app>>

\* a caller enters get_llm_recommendations(analysis_text)
RecCall(t, analysis_text) ==
    /\ Free(t)
    /\ ncalls < MaxCalls
    /\ now <= MaxNow
    /\ ncalls' = ncalls + 1
    /\ prev' = [prev EXCEPT ![t] = Summary(call[t])]
    /\ call' = [call EXCEPT ![t] =
                   [NoCall EXCEPT !.op = "recommend", !.pc = "loop",
                                  !.arg = analysis_text,
                                  !.max_retries = rec_max_retries, !.t_call = now,
                                  !.fresh0 = RecCacheFresh(hash(analysis_text))]]
    /\ UNCHANGED <<now, start, cache, llm_answer, app>>

\* the completion endpoint changes how it answers, while a call may reach it
LlmBehaves(o) ==
    /\ \E t \in Threads : call[t].op = "recommend" /\ call[t].pc = "loop"
    /\ o # llm_answer
    /\ llm_answer' = o
    /\ UNCHANGED <<now, start, cache, call, prev, ncalls, app>>

\* whether the request of get_llm_recommendations goes out: building its
\* arguments reads self.deepseek_headers, which raises AttributeError when
\* __init__ never assigned it
PostGoesOut == "deepseek_headers" \in InitAttrs

\* the exception the try body of get_llm_recommendations raises on outcome o
RecRaised(o) ==
    IF ~PostGoesOut THEN "AttributeError"
    ELSE IF o.kind = "timeout" THEN "Timeout"
    ELSE IF o.kind = "connection" THEN "ConnectionError"
    ELSE IF o.kind = "malformed" THEN "KeyError"
    ELSE "none"

\* get_llm_recommendations without its except Exception clause
RecHandlerNarrow(exc) ==
    IF exc = "Timeout" THEN "timeout"
    ELSE IF exc = "ConnectionError" THEN "connection"
    ELSE "none"

\* the except clause of get_llm_recommendations that catches exc
RecHandler(exc) ==
    IF exc = "Timeout" THEN "timeout"
    ELSE IF exc = "ConnectionError" THEN "connection"
    ELSE "unexpected"

\* int(response.headers.get('Retry-After', retry_delay))
retry_after(o) == IF o.has_retry_after THEN o.retry_after ELSE retry_delay

\* the seconds get_llm_recommendations sleeps after outcome o, when it retries
RecDelay(o) == IF RecRaised(o) = "none" THEN retry_after(o) ELSE retry_delay

\* whether get_llm_recommendations sleeps and retries after outcome o of `attempt`
RecRetries(o, attempt, max_retries) ==
    \/ RecRaised(o) = "none" /\ o.status = 429 /\ attempt < max_retries - 1
    \/ RecRaised(o) # "none" /\ RecHandler(RecRaised(o)) = "timeout"
       /\ attempt < max_retries - 1

\* what get_llm_recommendations returns after outcome o, when it does not retry
RecAnswer(o) ==
    IF RecRaised(o) # "none"
    THEN IF RecHandler(RecRaised(o)) = "timeout"
         THEN [value |-> TimeoutMsg, ret |-> "timeout"]
         ELSE IF RecHandler(RecRaised(o)) = "connection"
         THEN [value |-> NetworkMsg, ret |-> "network"]
         ELSE [value |-> _get_fallback_recommendations, ret |-> "unexpected"]
    ELSE IF o.status = 200 THEN [value |-> o.content, ret |-> "live"]
    ELSE IF o.status = 401 THEN [value |-> AuthMsg, ret |-> "auth"]
    ELSE IF o.status = 429 THEN [value |-> RateLimitMsg, ret |-> "rate_limit"]
    ELSE [value |-> UnableMsg(o.error), ret |-> "api_error"]

\* one pass of the loop body: the cache lookup, the request and its handling
RecAttempt(t) ==
    LET c == call[t]
        cache_key == hash(c.arg)
        o == llm_answer
        d == IF PostGoesOut
             THEN [c EXCEPT !.answers = c.answers + 1, !.last = o, !.reqs = c.reqs + 1]
             ELSE c
    IN
    /\ c.op = "recommend" /\ c.pc = "loop"
    /\ IF c.attempt >= c.max_retries
       THEN /\ call' = [call EXCEPT ![t] = Return(c, ExhaustedMsg, "exhausted")]
            /\ UNCHANGED <<now, cache>>
       ELSE IF RecCacheFresh(cache_key)
       THEN /\ call' = [call EXCEPT ![t] =
                           Return(c, cache[cache_key].recommendations, "cache")]
            /\ UNCHANGED <<now, cache>>
       ELSE IF RecRetries(o, c.attempt, c.max_retries)
       THEN /\ now' = now + RecDelay(o)
            /\ call' = [call EXCEPT ![t] =
                           [d EXCEPT !.attempt = c.attempt + 1,
                                     !.slept = c.slept + RecDelay(o)]]
            /\ cache' = cache
       ELSE IF RecRaised(o) # "none" /\ RecHandler(RecRaised(o)) = "none"
       THEN /\ call' = [call EXCEPT ![t] = Raise(d, RecRaised(o))]
            /\ UNCHANGED <<now, cache>>
       ELSE /\ call' = [call EXCEPT ![t] =
                           Return(d, RecAnswer(o).value, RecAnswer(o).ret)]
            /\ cache' = IF RecRaised(o) = "none" /\ o.status = 200
                        THEN [k \in DOMAIN cache \cup {cache_key} |->
                                 IF k = cache_key
                                 THEN [timestamp |-> now,
                                       recommendations |-> o.content]
                                 ELSE cache[k]]
                        ELSE cache
            /\ now' = now
    \* the endpoint's behaviour matters while a call may reach it: once the call
    \* has returned it is the initial one again
    /\ llm_answer' = IF call'[t].pc = "loop" THEN llm_answer ELSE LlmTimeout
    /\ UNCHANGED <<start, prev, ncalls, app>>

----------------------------------------------------------------------------
(* analyze_hourly_metrics: the report, as the figures it prints before they
   are formatted. Its except clause is not modelled: no cache content drawn
   here makes the body raise. *)

NoDataMsg == "No energy data available for analysis. Please fetch data first."
NoValidMsg ==
    "No valid energy data available for analysis. Please check data sources."
AnalysisHeader == "=== Hourly Energy Analysis ==="

\* ENERGY_SOURCES.keys(), in the order of the dict
SourceOrder == <<"Solar", "Wind", "Coal", "Natural Gas">>

\* hours without the reverse(): newest to oldest
NewestFirst == [i \in 1..24 |-> hours[i]]

\* hours.reverse(): oldest to newest
chronological == [i \in 1..24 |-> hours[25 - i]]

\* data.get(name, {})
hourly_map(data, name) == IF name \in DOMAIN data THEN data[name] ELSE <<>>

\* isinstance(v, (int, float)) for the values of the map `name` of data: a
\* snapshot whose field "text" names the map holds strings there
is_number(data, name) == ~("text" \in DOMAIN data /\ name \in data.text)

\* the test of the report with the age of the entry added to it
HasFreshData(source) ==
    /\ source \in DOMAIN cache
    /\ now - cache[source].timestamp < cache_duration
    /\ "data" \in DOMAIN cache[source]
    /\ DOMAIN cache[source].data # {}

\* source in self.cache and self.cache[source].get('data')
has_data(source) ==
    /\ source \in DOMAIN cache
    /\ "data" \in DOMAIN cache[source]
    /\ DOMAIN cache[source].data # {}

\* the validation skipping a source only when its production map is missing
HasHourlyMapsProductionOnly(data) ==
    DOMAIN hourly_map(data, "hourly_production") # {}

\* not (not hourly_prod or not hourly_eff or not hourly_cost)
has_hourly_maps(data) ==
    /\ DOMAIN hourly_map(data, "hourly_production") # {}
    /\ DOMAIN hourly_map(data, "hourly_efficiency") # {}
    /\ DOMAIN hourly_map(data, "hourly_cost") # {}

\* the sources counted in valid_sources
counted(source) == has_data(source) /\ has_hourly_maps(cache[source].data)

\* valid_prods and valid_effs and valid_costs: the source gets its block
has_block(source) ==
    /\ counted(source)
    /\ \A name \in {"hourly_production", "hourly_efficiency", "hourly_cost"} :
           /\ DOMAIN hourly_map(cache[source].data, name) # {}
           /\ is_number(cache[source].data, name)

\* sum(values) of a dict of integers
RECURSIVE sum_values(_, _)
sum_values(f, keys) ==
    IF keys = {} THEN 0
    ELSE LET k == CHOOSE x \in keys : TRUE IN f[k] + sum_values(f, keys \ {k})

\* a common denominator of the values of a dict of fractions
RECURSIVE common_den(_, _)
common_den(f, keys) ==
    IF keys = {} THEN 1
    ELSE LET k == CHOOSE x \in keys : TRUE
         IN  LCM(f[k].den, common_den(f, keys \ {k}))

\* sum(values) / len(values) of a dict of integers
mean_values(f) == Rat(sum_values(f, DOMAIN f), Cardinality(DOMAIN f))

\* sum(values) / len(values) of a dict of fractions
rat_mean_values(f) ==
    LET d == common_den(f, DOMAIN f)
        over_d == [k \in DOMAIN f |-> f[k].num * (d \div f[k].den)]
    IN  Rat(sum_values(over_d, DOMAIN f), d * Cardinality(DOMAIN f))

\* max(hours, key=...): the first hour, oldest to newest, whose key is the
\* greatest; an hour the dict lacks counts 0
first_max(f) ==
    LET key == [i \in 1..24 |->
                   IF chronological[i] \in DOMAIN f THEN f[chronological[i]] ELSE 0]
    IN  chronological[CHOOSE i \in 1..24 :
                          /\ \A j \in 1..24 : key[j] <= key[i]
                          /\ \A j \in 1..(i - 1) : key[j] < key[i]]

\* min(hours, key=...): the first hour, oldest to newest, whose key is the
\* least; an hour the dict lacks counts float('inf')
first_min(f) ==
    LET has == {i \in 1..24 : chronological[i] \in DOMAIN f} IN
    IF has = {} THEN chronological[1]
    ELSE chronological[CHOOSE i \in has :
                           /\ \A j \in has : f[chronological[i]] <= f[chronological[j]]
                           /\ \A j \in has : j < i =>
                                  f[chronological[j]] > f[chronological[i]]]

\* hourly_prod.get(hour, 0)
prod_at(source, hour) ==
    LET hourly_prod == hourly_map(cache[source].data, "hourly_production")
    IN  IF hour \in DOMAIN hourly_prod THEN hourly_prod[hour] ELSE 0

\* the lines analysis gets for one source
source_block(source) ==
    LET data == cache[source].data
        hourly_prod == hourly_map(data, "hourly_production")
    IN  [avg_prod |-> mean_values(hourly_prod),
         avg_eff |-> mean_values(hourly_map(data, "hourly_efficiency")),
         avg_cost |-> rat_mean_values(hourly_map(data, "hourly_cost")),
         peak_prod_hour |-> first_max(hourly_prod),
         peak_prod |-> prod_at(source, first_max(hourly_prod)),
         low_prod_hour |-> first_min(hourly_prod),
         low_prod |-> prod_at(source, first_min(hourly_prod))]

\* total_hourly_production after the loop over the sources
RECURSIVE total_from(_, _)
total_from(hour, i) ==
    IF i > Len(SourceOrder) THEN 0
    ELSE (IF has_block(SourceOrder[i]) THEN prod_at(SourceOrder[i], hour) ELSE 0)
         + total_from(hour, i + 1)

total_hourly_production == [h \in HourKeys |-> total_from(h, 1)]

\* no system-wide section
NoSystem ==
    [rendered |-> FALSE, has_totals |-> FALSE, totals |-> <<>>,
     total_avg |-> Rat(0, 1), peak_hour |-> 0, low_hour |-> 0,
     ratio |-> Rat(0, 1)]

\* the system-wide section
system_block ==
    LET totals == total_hourly_production
        valid == {h \in DOMAIN totals : totals[h] > 0}
        total_avg == Rat(sum_values(totals, valid), Cardinality(valid))
        peak_hour == first_max(totals)
    IN  IF valid # {}
        THEN [rendered |-> TRUE, has_totals |-> TRUE, totals |-> totals,
              total_avg |-> total_avg,
              peak_hour |-> peak_hour, low_hour |-> first_min(totals),
              ratio |-> IF total_avg.num > 0
                        THEN Rat(totals[peak_hour] * total_avg.den, total_avg.num)
                        ELSE Rat(0, 1)]
        ELSE [NoSystem EXCEPT !.rendered = TRUE, !.totals = totals]

\* any(...) testing the cache for any key at all
AnyKeyCached == DOMAIN cache # {}

\* any(source in self.cache for source in ENERGY_SOURCES.keys())
any_source_cached == \E i \in 1..Len(SourceOrder) : SourceOrder[i] \in DOMAIN cache

\* what analyze_hourly_metrics returns
analyze_hourly_metrics ==
    IF ~any_source_cached
    THEN [head |-> NoDataMsg, blocks |-> <<>>, system |-> NoSystem]
    ELSE IF ~\E i \in 1..Len(SourceOrder) : counted(SourceOrder[i])
    THEN [head |-> NoValidMsg, blocks |-> <<>>, system |-> NoSystem]
    ELSE [head |-> AnalysisHeader,
          blocks |-> [source \in {SourceOrder[i] : i \in 1..Len(SourceOrder)}
                                     \cap {x \in DOMAIN cache : has_block(x)}
                          |-> source_block(source)],
          system |-> system_block]

\* a report that stamps the entries it read with the time of the reading
ReportTouching(t) ==
    /\ Free(t)
    /\ ncalls < MaxCalls
    /\ now <= MaxNow
    /\ ncalls' = ncalls + 1
    /\ prev' = [prev EXCEPT ![t] = Summary(call[t])]
    /\ call' = [call EXCEPT ![t] =
                   [NoCall EXCEPT !.op = "report", !.pc = "done",
                                  !.result = analyze_hourly_metrics,
                                  !.ret = "report", !.t_call = now, !.t_ret = now]]
    /\ cache' = [k \in DOMAIN cache |-> [cache[k] EXCEPT !.timestamp = now]]
    /\ UNCHANGED <<now, start, llm_answer, app>>

\* a caller runs analyze_hourly_metrics(), which neither waits nor calls out
Report(t) ==
    /\ Free(t)
    /\ ncalls < MaxCalls
    /\ now <= MaxNow
    /\ ncalls' = ncalls + 1
    /\ prev' = [prev EXCEPT ![t] = Summary(call[t])]
    /\ call' = [call EXCEPT ![t] =
                   [NoCall EXCEPT !.op = "report", !.pc = "done",
                                  !.result = analyze_hourly_metrics,
                                  !.ret = "report", !.t_call = now, !.t_ret = now]]
    /\ UNCHANGED <<now, start, cache, llm_answer, app>>

----------------------------------------------------------------------------
(* the report as a function of the cache: self.cache is a plain dict that the
   holder of the fetcher can fill, and the report validates what it finds *)

\* what may lie under a source: nothing, a whole snapshot, one without its
\* efficiency map, one with an empty production map, one whose maps hold
\* strings, an entry whose data is empty, and the snapshots built from a 200
\* that reports no production for the latest hour, or for any
ReportKinds ==
    {"absent", "full", "no_efficiency", "empty_production", "text", "no_data",
     "idle_hour", "idle"}

ReportData(source, kind) ==
    LET full == _get_fallback_hourly_data(source) IN
    IF kind = "full" THEN full
    ELSE IF kind = "idle_hour"
    THEN _process_hourly_data(source, <<Point(0), Point(10)>>)
    ELSE IF kind = "idle"
    THEN _process_hourly_data(source, <<Point(0)>>)
    ELSE IF kind = "no_efficiency"
    THEN [k \in DOMAIN full \ {"hourly_efficiency"} |-> full[k]]
    ELSE IF kind = "empty_production"
    THEN [full EXCEPT !.hourly_production = <<>>]
    ELSE IF kind = "text"
    THEN [k \in DOMAIN full \cup {"text"} |->
             IF k = "text"
             THEN {"hourly_production", "hourly_efficiency", "hourly_cost"}
             ELSE full[k]]
    ELSE <<>>

\* the cache contents the report is run on: two known sources in every way, a
\* third known one and an unknown one whole or absent
ReportInputs ==
    {kinds \in [{"Solar", "Wind", "Coal", "Hydro"} -> ReportKinds] :
        kinds["Coal"] \in {"absent", "full"} /\ kinds["Hydro"] \in {"absent", "full"}}

ReportCache(kinds) ==
    [source \in {x \in DOMAIN kinds : kinds[x] # "absent"} |->
        [timestamp |-> now, data |-> ReportData(source, kinds[source])]]

InitReport ==
    /\ now = 0
    /\ start \in StartTimes
    /\ \E kinds \in ReportInputs : cache = ReportCache(kinds)
    /\ call = [t \in Threads |-> NoCall]
    /\ prev = [t \in Threads |-> NoPrev]
    /\ ncalls = 0
    /\ llm_answer = LlmTimeout
    /\ app = NoApp

NextReport ==
    \/ \E d \in TickSteps : Tick(d)
    \/ \E t \in SeqThreads : Report(t)

SpecReport == InitReport /\ [][NextReport]_vars

----------------------------------------------------------------------------
(* the pure helpers applied to every source and hour *)

\* the source names the helpers are applied to: the known ones and another
CalcSources == {"Solar", "Wind", "Coal", "Natural Gas", "Hydro"}

\* a caller evaluates _calculate_efficiency(source, hour)
Efficiency(t, source, hour) ==
    /\ call' = [call EXCEPT ![t] =
                   [op |-> "efficiency", pc |-> "done", arg |-> source,
                    hour |-> hour, result |-> _calculate_efficiency(source, hour)]]
    /\ UNCHANGED <<now, start, cache, prev, ncalls, llm_answer, app>>

\* a caller takes the cost of source at hour from a snapshot built from live
\* data and from a synthesized one
Cost(t, source, hour) ==
    /\ call' = [call EXCEPT ![t] =
                   [op |-> "cost", pc |-> "done", arg |-> source, hour |-> hour,
                    efficiency |-> _calculate_efficiency(source, hour),
                    live |-> _process_hourly_data(source, <<Point(10)>>).hourly_cost[hour],
                    fallback |-> _get_fallback_hourly_data(source).hourly_cost[hour]]]
    /\ UNCHANGED <<now, start, cache, prev, ncalls, llm_answer, app>>

NextCalc ==
    \/ \E t \in SeqThreads, source \in CalcSources, hour \in Hours :
           Efficiency(t, source, hour)
    \/ \E t \in SeqThreads, source \in CalcSources, hour \in Hours :
           Cost(t, source, hour)

SpecCalc == Init /\ [][NextCalc]_vars

----------------------------------------------------------------------------
(* two update loops on one fetcher: start_realtime_updates runs _update_loop on
   a thread of its own each time, and each loop calls fetch_realtime_data(source)
   with the default budget *)

\* the default of max_retries in fetch_realtime_data
fetch_max_retries == 3

\* the source both loops are at
ConcSources == {"Solar"}

\* what the two loops get from upstream: a 200 with data, a 200 with a value
\* that is no number, and a 500
ConcOutcomes ==
    {Resp(200, TRUE, <<Point(30), Point(10), Point(20)>>),
     Resp(200, TRUE, <<Point(7), BadPoint>>),
     Resp(500, TRUE, <<>>)}

NextConc ==
    \/ \E d \in TickSteps : Tick(d)
    \/ \E t \in Threads, s \in ConcSources : FetchCall(t, s, fetch_max_retries)
    \/ \E t \in Threads : FetchLoop(t)
    \/ \E t \in Threads, o \in ConcOutcomes : FetchResponse(t, o)

SpecConc == Init /\ [][NextConc]_vars

----------------------------------------------------------------------------
(* energy.py: the refresh driver.  start_realtime_updates runs _update_loop on
   a thread of its own; the loop fetches every source of ENERGY_SOURCES in
   turn, schedules the display and the recommendations, and in its finally
   clause schedules the next start_realtime_updates.  The progress bar and the
   dialogs are display only and are left out. *)

\* self.update_interval, in seconds
update_interval == 300

\* required_keys of _validate_data
required_keys ==
    {"production", "efficiency", "cost",
     "hourly_production", "hourly_efficiency", "hourly_cost"}

\* _validate_data asking for a field no snapshot has
ValidateDataStrict(data) == (required_keys \cup {"source"}) \subseteq DOMAIN data

\* _validate_data: all(key in data for key in required_keys)
_validate_data(data) == required_keys \subseteq DOMAIN data

\* what upstream answers the loops: a 200 with data, a 200 with none, or a 404
AppOutcomes ==
    {Resp(200, TRUE, <<Point(30), Point(10), Point(20)>>),
     Resp(200, TRUE, <<>>),
     Resp(404, TRUE, <<>>)}

\* the application once start_realtime_updates has started a loop on thread t
start_realtime_updates(a, t) ==
    [a EXCEPT !.loop[t] = [pc |-> "run", idx |-> 1, successful_fetches |-> 0],
              !.started = a.started + 1]

\* EnergyApp.__init__: a fetcher with an empty cache, and the first loop started
InitApp ==
    /\ now = 0
    /\ start \in StartTimes
    /\ cache = <<>>
    /\ call = [t \in Threads |-> NoCall]
    /\ prev = [t \in Threads |-> NoPrev]
    /\ ncalls = 0
    /\ llm_answer = LlmTimeout
    /\ app = [start_realtime_updates(NoApp, "t1") EXCEPT !.started = 1]

\* the user presses 'Fetch Latest Data'
Trigger(t) ==
    /\ app.loop[t].pc = "off"
    /\ app.started < MaxLoops
    /\ app' = [start_realtime_updates(app, t) EXCEPT !.triggers = app.triggers + 1]
    /\ UNCHANGED <<now, start, cache, call, prev, ncalls, llm_answer>>

\* the timer set by a finished loop comes due and starts the next one
TimerFires(t, i) ==
    /\ i \in 1..Len(app.timers)
    /\ app.timers[i] <= now
    /\ app.loop[t].pc = "off"
    /\ app.started < MaxLoops
    /\ app' = [start_realtime_updates(app, t) EXCEPT
                  !.timers = [j \in 1..(Len(app.timers) - 1) |->
                                 IF j < i THEN app.timers[j] ELSE app.timers[j + 1]]]
    /\ UNCHANGED <<now, start, cache, call, prev, ncalls, llm_answer>>

\* the loop calls self.data_fetcher.fetch_realtime_data(source)
LoopFetch(t) ==
    LET source == SourceOrder[app.loop[t].idx] IN
    /\ app.loop[t].pc = "run"
    /\ app.loop[t].idx <= Len(SourceOrder)
    /\ app' = [app EXCEPT !.loop[t].pc = "fetching"]
    /\ call' = [call EXCEPT ![t] =
                   [NoCall EXCEPT !.op = "fetch", !.pc = "loop", !.arg = source,
                                  !.max_retries = fetch_max_retries, !.t_call = now,
                                  !.fresh0 = _is_cache_valid(source)]]
    /\ UNCHANGED <<now, start, cache, prev, ncalls, llm_answer>>

\* the fetch is over: the loop validates what it returned, or logs what it
\* raised, and goes on to the next source
LoopAfterFetch(t) ==
    LET ok == call[t].pc = "done" /\ _validate_data(call[t].result) IN
    /\ app.loop[t].pc = "fetching"
    /\ call[t].pc \in {"done", "raised"}
    /\ app' = [app EXCEPT
                  !.loop[t] = [pc |-> "run", idx |-> app.loop[t].idx + 1,
                               successful_fetches |->
                                   app.loop[t].successful_fetches + (IF ok THEN 1 ELSE 0)],
                  !.sources_data = IF ok THEN app.sources_data \cup {call[t].arg}
                                         ELSE app.sources_data]
    /\ call' = [call EXCEPT ![t] = NoCall]
    /\ UNCHANGED <<now, start, cache, prev, ncalls, llm_answer>>

\* the end of a loop that sets no timer
LoopEndNoTimer(t) ==
    LET n == app.loop[t].successful_fetches IN
    /\ app.loop[t].pc = "run"
    /\ app.loop[t].idx > Len(SourceOrder)
    /\ app' = [app EXCEPT
                  !.loop[t] = NoLoop,
                  !.displays = app.displays + (IF n > 0 THEN 1 ELSE 0),
                  !.recs = app.recs + (IF n = Len(SourceOrder) THEN 1 ELSE 0),
                  !.errors = app.errors + (IF n = 0 THEN 1 ELSE 0)]
    /\ UNCHANGED <<now, start, cache, call, prev, ncalls, llm_answer>>

\* the end of the loop: after(0, update_display), after(0,
\* generate_recommendations) when every source succeeded, the error dialog when
\* none did, and in the finally clause after(update_interval,
\* start_realtime_updates)
LoopEnd(t) ==
    LET n == app.loop[t].successful_fetches IN
    /\ app.loop[t].pc = "run"
    /\ app.loop[t].idx > Len(SourceOrder)
    /\ app' = [app EXCEPT
                  !.loop[t] = NoLoop,
                  !.displays = app.displays + (IF n > 0 THEN 1 ELSE 0),
                  !.recs = app.recs + (IF n = Len(SourceOrder) THEN 1 ELSE 0),
                  !.errors = app.errors + (IF n = 0 THEN 1 ELSE 0),
                  !.timers = Append(app.timers, now + update_interval)]
    /\ UNCHANGED <<now, start, cache, call, prev, ncalls, llm_answer>>

\* time passes while no loop runs (a controllable clock: a loop with no sleep
\* in it takes no time)
AppTick(d) ==
    /\ \A t \in Threads : app.loop[t].pc = "off"
    /\ Tick(d)

NextApp ==
    \/ \E d \in TickSteps : AppTick(d)
    \/ \E t \in Threads : Trigger(t)
    \/ \E t \in Threads, i \in 1..MaxLoops : TimerFires(t, i)
    \/ \E t \in Threads : LoopFetch(t)
    \/ \E t \in Threads : FetchLoop(t)
    \/ \E t \in Threads, o \in AppOutcomes : FetchResponse(t, o)
    \/ \E t \in Threads : LoopAfterFetch(t)
    \/ \E t \in Threads : LoopEnd(t)

SpecApp == InitApp /\ [][NextApp]_vars

RecNext(t) ==
    \/ \E a \in CallTexts : RecCall(t, a)
    \/ RecAttempt(t)

FetchNext(t) ==
    \/ \E s \in CallSources, m \in 0..MaxRetriesArg : FetchCall(t, s, m)
    \/ FetchLoop(t)
    \/ \E o \in EiaOutcomes : FetchResponse(t, o)

Next ==
    \/ \E d \in TickSteps : Tick(d)
    \/ \E o \in LlmOutcomes : LlmBehaves(o)
    \/ \E t \in SeqThreads : FetchNext(t)
    \/ \E t \in SeqThreads : RecNext(t)
    \/ \E t \in SeqThreads : Report(t)

Spec == Init /\ [][Next]_vars

----------------------------------------------------------------------------
(* what the claims speak of *)

\* an entry under key k whose age is below the TTL
Fresh(k) == k \in DOMAIN cache /\ now - cache[k].timestamp < cache_duration

SnapshotKeys ==
    {"timestamp", "production", "efficiency", "cost",
     "hourly_production", "hourly_efficiency", "hourly_cost"}

IsSnapshot(r) ==
    /\ DOMAIN r = SnapshotKeys
    /\ DOMAIN r.hourly_production = Hours
    /\ DOMAIN r.hourly_efficiency = Hours
    /\ DOMAIN r.hourly_cost = Hours

\* r is what the fallback synthesizer makes for source, whenever it was made
SynthesizedFor(r, source) ==
    r = [_get_fallback_hourly_data(source) EXCEPT !.timestamp = r.timestamp]

InFetch(t) == call[t].op = "fetch" /\ call[t].pc \in {"loop", "await"}

\* the steps a fetch call has left at most
FetchMeasure(c) ==
    IF c.pc = "loop" THEN 2 * (c.max_retries - c.attempt) + 1
    ELSE IF c.pc = "await" THEN 2 * (c.max_retries - c.attempt)
    ELSE 0

\* thread t takes a step of its call
Moves(t) == <<call'[t].pc, call'[t].attempt>> # <<call[t].pc, call[t].attempt>>

Is5xx(o) == o.kind = "response" /\ 500 <= o.status /\ o.status <= 599

----------------------------------------------------------------------------
(* C1: fetch never raises: for every source, every max_retries >= 0 and every
   sequence of upstream outcomes, no exception leaves the call, every step
   brings it nearer to its end, and it ends by returning a snapshot. *)
C1_FetchNeverRaises ==
    /\ [](\A t \in Threads :
            call[t].op = "fetch" =>
                /\ call[t].pc # "raised"
                /\ FetchMeasure(call[t]) >= 0
                /\ call[t].pc = "done" => IsSnapshot(call[t].result))
    /\ [][\A t \in Threads :
            InFetch(t) /\ Moves(t) =>
                FetchMeasure(call'[t]) < FetchMeasure(call[t])]_vars

\* a fetch that returned after its try body raised ValueError on an empty 200
C1_Witness ==
    \E t \in Threads :
        /\ call[t].op = "fetch" /\ call[t].pc = "done"
        /\ call[t].ret = "unexpected"
        /\ call[t].last = Resp(200, TRUE, <<>>)

(* C2: whenever fetch returns a snapshot it synthesized (here on a budget of at
   least one attempt), that snapshot is in the cache under the source key, where
   the next fetch within the TTL finds it. *)
C2_FallbackIsCached ==
    \A t \in Threads :
        (/\ call[t].op = "fetch" /\ call[t].pc = "done"
         /\ call[t].max_retries >= 1
         /\ call[t].ret # "cache"
         /\ SynthesizedFor(call[t].result, call[t].arg))
        => /\ call[t].arg \in DOMAIN cache
           /\ cache[call[t].arg].data = call[t].result

(* C3: a fetch with at least one attempt that finds a fresh entry for its
   source returns that entry's payload, with no request, no sleep and the cache
   and the clock as they were. *)
C3_FreshEntryServed ==
    [][\A t \in Threads :
        (/\ call[t].op = "fetch" /\ call[t].pc = "loop"
         /\ call[t].attempt = 0 /\ call[t].max_retries >= 1
         /\ Fresh(call[t].arg)
         /\ Moves(t))
        => /\ call'[t].pc = "done"
           /\ call'[t].result = cache[call[t].arg].data
           /\ call'[t].reqs = 0
           /\ call'[t].slept = 0
           /\ cache' = cache
           /\ now' = now]_vars

\* a fetch that found a fresh entry at its call and has returned
C3_Witness ==
    \E t \in Threads :
        /\ call[t].op = "fetch" /\ call[t].pc = "done"
        /\ call[t].fresh0 /\ call[t].max_retries >= 1
        /\ call[t].reqs = 0
        /\ call[t].result = cache[call[t].arg].data

(* C4: a sequential caller, an upstream answering 200 with data, a first fetch
   on a cold cache and the next fetch of the same source: called less than the
   TTL after the first was called, the two issue one request in all; called at
   least the TTL after the first returned, they issue two. *)
C4_OneRequestPerTtl ==
    \A t \in Threads :
        (/\ call[t].op = "fetch" /\ call[t].pc = "done"
         /\ prev[t].op = "fetch" /\ prev[t].arg = call[t].arg
         /\ prev[t].miss_ok
         /\ call[t].max_retries >= 1
         /\ call[t].all_ok)
        => /\ call[t].t_call - prev[t].t_call < cache_duration
              => prev[t].reqs + call[t].reqs = 1
           /\ call[t].t_call - prev[t].t_ret >= cache_duration
              => prev[t].reqs + call[t].reqs = 2

\* the second of two such fetches, made a TTL after the first, has returned
C4_Witness ==
    \E t \in Threads :
        /\ call[t].op = "fetch" /\ call[t].pc = "done"
        /\ prev[t].op = "fetch" /\ prev[t].arg = call[t].arg
        /\ prev[t].miss_ok
        /\ call[t].max_retries >= 1
        /\ call[t].all_ok
        /\ call[t].t_call - prev[t].t_ret >= cache_duration
        /\ prev[t].reqs + call[t].reqs = 2

(* C5: a 5xx status or a connection or timeout exception on an attempt that is
   not the last never ends the call: fetch returns after such an outcome on its
   last attempt only. *)
C5_Every5xxRetried ==
    \A t \in Threads :
        (/\ call[t].op = "fetch" /\ call[t].pc = "done"
         /\ call[t].answers > 0
         /\ call[t].ret # "cache"
         /\ \/ Is5xx(call[t].last)
            \/ call[t].last.kind \in {"timeout", "connection"})
        => call[t].answers = call[t].max_retries

(* C6: fetch never issues more than max_retries requests, and when the first
   max_retries answers are all 500 it has issued exactly max_retries requests
   and returned the synthesized snapshot. *)
C6_BudgetExhausted ==
    \A t \in Threads :
        call[t].op = "fetch" =>
            /\ call[t].reqs <= call[t].max_retries
            /\ (/\ call[t].max_retries >= 1
                /\ call[t].answers = call[t].max_retries
                /\ call[t].all_500)
               => /\ call[t].pc = "done"
                  /\ call[t].reqs = call[t].max_retries
                  /\ SynthesizedFor(call[t].result, call[t].arg)

\* three 500s on a budget of three, and the call has returned
C6_Witness ==
    \E t \in Threads :
        /\ call[t].op = "fetch" /\ call[t].pc = "done"
        /\ call[t].max_retries = 3
        /\ call[t].answers = 3 /\ call[t].all_500

(* C7: a status that is neither 200 nor 5xx ends the call at once: no sleep and
   no request follows it, so that as a first answer it leaves one request and
   no sleep, and the call returns the snapshot synthesized at that moment. *)
C7_OtherStatusNotRetried ==
    \A t \in Threads :
        (/\ call[t].op = "fetch" /\ call[t].answers > 0
         /\ call[t].last.kind = "response"
         /\ call[t].last.status # 200
         /\ ~Is5xx(call[t].last))
        => /\ call[t].pc = "done"
           /\ call[t].reqs = call[t].answers
           /\ call[t].slept = Pow2(call[t].answers - 1) - 1
           /\ SynthesizedFor(call[t].result, call[t].arg)
           /\ call[t].result.timestamp = start + call[t].t_ret

\* a 404 as the first answer, and the call has returned
C7_Witness ==
    \E t \in Threads :
        /\ call[t].op = "fetch" /\ call[t].pc = "done"
        /\ call[t].max_retries = 3
        /\ call[t].answers = 1 /\ call[t].last = Resp(404, TRUE, <<>>)
        /\ call[t].reqs = 1 /\ call[t].slept = 0

\* a recommend call about to run a pass of its loop with no fresh entry for its text
RecMiss(t) ==
    /\ call[t].op = "recommend" /\ call[t].pc = "loop"
    /\ call[t].attempt < call[t].max_retries
    /\ ~Fresh(hash(call[t].arg))

(* C8: when recommend finds no fresh entry for the fingerprint of its text and
   the completion endpoint answers 200, the call returns the completion's text
   and stores it under the fingerprint with the time of the write. *)
C8_CompletionReturnedAndCached ==
    [][\A t \in Threads :
        (/\ RecMiss(t)
         /\ llm_answer.kind = "response" /\ llm_answer.status = 200
         /\ Moves(t))
        => /\ call'[t].pc = "done"
           /\ call'[t].result = llm_answer.content
           /\ hash(call[t].arg) \in DOMAIN cache'
           /\ cache'[hash(call[t].arg)] =
                  [timestamp |-> now, recommendations |-> llm_answer.content]]_vars

(* C9: when the completion endpoint answers 401, recommend returns the fixed
   authentication message on that attempt, one request when it is the first,
   with no sleep and nothing written to the cache. *)
C9_AuthFailureIsFatal ==
    [][\A t \in Threads :
        (/\ RecMiss(t)
         /\ llm_answer.kind = "response" /\ llm_answer.status = 401
         /\ Moves(t))
        => /\ call'[t].pc = "done"
           /\ call'[t].result = AuthMsg
           /\ call'[t].reqs = call[t].reqs + 1
           /\ call[t].attempt = 0 => call'[t].reqs = 1
           /\ call'[t].slept = call[t].slept
           /\ now' = now
           /\ cache' = cache]_vars

\* the delay a 429 advertises, the default one when it advertises none
AdvertisedDelay(o) == IF o.has_retry_after THEN o.retry_after ELSE retry_delay

(* C10: a 429 on an attempt of recommend that is not the last makes the call
   sleep the advertised delay (the default one when none is advertised) and try
   again; a 200 on the attempt after it ends the call with the completion, so
   that a 429 with delay d and a 200 take 2 attempts and d slept; a 429 on the
   last attempt ends the call with the fixed rate-limit message after
   max_retries attempts. *)
C10_RateLimitRetried ==
    [][\A t \in Threads :
        (RecMiss(t) /\ llm_answer.kind = "response" /\ Moves(t)) =>
            /\ (llm_answer.status = 429 /\ call[t].attempt < call[t].max_retries - 1)
               => /\ call'[t].pc = "loop"
                  /\ call'[t].attempt = call[t].attempt + 1
                  /\ call'[t].reqs = call[t].reqs + 1
                  /\ call'[t].slept = call[t].slept + AdvertisedDelay(llm_answer)
                  /\ now' = now + AdvertisedDelay(llm_answer)
            /\ (llm_answer.status = 429 /\ call[t].attempt = call[t].max_retries - 1)
               => /\ call'[t].pc = "done"
                  /\ call'[t].result = RateLimitMsg
                  /\ call'[t].reqs = call[t].max_retries
            /\ llm_answer.status = 200
               => /\ call'[t].pc = "done"
                  /\ call'[t].result = llm_answer.content
                  /\ call'[t].reqs = call[t].attempt + 1
                  /\ call'[t].slept = call[t].slept]_vars

InRec(t) == call[t].op = "recommend" /\ call[t].pc = "loop"

\* the passes of its loop a recommend call has left at most
RecMeasure(c) == IF c.pc = "loop" THEN c.max_retries - c.attempt + 1 ELSE 0

\* the strings get_llm_recommendations has to return
RecTexts ==
    {AuthMsg, RateLimitMsg, TimeoutMsg, NetworkMsg, ExhaustedMsg,
     _get_fallback_recommendations}
    \cup {o.content : o \in LlmOutcomes} \cup {UnableMsg(o.error) : o \in LlmOutcomes}

(* C11: recommend never raises: whatever the completion endpoint does, no
   exception leaves the call, every pass of the loop brings it nearer to its
   end, it issues at most max_retries requests and ends by returning a string. *)
C11_RecommendNeverRaises ==
    /\ [](\A t \in Threads :
            call[t].op = "recommend" =>
                /\ call[t].pc # "raised"
                /\ call[t].reqs <= call[t].max_retries
                /\ RecMeasure(call[t]) >= 0
                /\ call[t].pc = "done" => call[t].result \in RecTexts)
    /\ [][\A t \in Threads :
            InRec(t) /\ Moves(t) =>
                RecMeasure(call'[t]) < RecMeasure(call[t])]_vars

\* a recommend call that returned through its except Exception clause
C11_Witness ==
    \E t \in Threads :
        /\ call[t].op = "recommend" /\ call[t].pc = "done"
        /\ call[t].ret = "unexpected"
        /\ call[t].result = _get_fallback_recommendations

(* C12: a timeout of the request on an attempt of recommend that is not the
   last is followed by a sleep of retry_delay and another attempt; a timeout on
   the last attempt ends the call with the fixed timeout message after
   max_retries attempts. *)
C12_TimeoutRetried ==
    [][\A t \in Threads :
        (RecMiss(t) /\ llm_answer.kind = "timeout" /\ Moves(t)) =>
            /\ call[t].attempt < call[t].max_retries - 1
               => /\ call'[t].pc = "loop"
                  /\ call'[t].attempt = call[t].attempt + 1
                  /\ call'[t].reqs = call[t].reqs + 1
                  /\ call'[t].slept = call[t].slept + retry_delay
                  /\ now' = now + retry_delay
            /\ call[t].attempt = call[t].max_retries - 1
               => /\ call'[t].pc = "done"
                  /\ call'[t].result = TimeoutMsg
                  /\ call'[t].reqs = call[t].max_retries]_vars

(* C13: a connection failure on any attempt of recommend ends the call at once
   with the fixed network-error message: one request on that attempt, no sleep
   and no further attempt. *)
C13_ConnectionFailureNotRetried ==
    [][\A t \in Threads :
        (RecMiss(t) /\ llm_answer.kind = "connection" /\ Moves(t)) =>
            /\ call'[t].pc = "done"
            /\ call'[t].result = NetworkMsg
            /\ call'[t].reqs = call[t].reqs + 1
            /\ call'[t].slept = call[t].slept
            /\ now' = now]_vars

\* the sum of the integers f holds under the keys lo..hi
RECURSIVE SumFrom(_, _, _)
SumFrom(f, lo, hi) == IF lo > hi THEN 0 ELSE f[lo] + SumFrom(f, lo + 1, hi)

\* a common denominator of the fractions f holds under the keys lo..hi
RECURSIVE DenFrom(_, _, _)
DenFrom(f, lo, hi) == IF lo > hi THEN 1 ELSE LCM(f[lo].den, DenFrom(f, lo + 1, hi))

\* the fraction m is the arithmetic mean of the 24 integers of f
IsMean(m, f) == m.num * 24 = m.den * SumFrom(f, 0, 23)

\* the fraction m is the arithmetic mean of the 24 fractions of f: over their
\* common denominator d, 24 * d * m is the sum of their numerators
IsRatMean(m, f) ==
    LET d == DenFrom(f, 0, 23)
        over_d == [h \in 0..23 |-> f[h].num * (d \div f[h].den)]
    IN  RatEq(m, Rat(SumFrom(over_d, 0, 23), d * 24))

(* C14: every snapshot fetch returns, built from live data, synthesized or read
   from the cache, has its three hourly maps on exactly the keys 0..23, and its
   production, efficiency and cost are the arithmetic means of the 24 values of
   the corresponding map. *)
C14_AggregatesAreMeans ==
    \A t \in Threads :
        (call[t].op = "fetch" /\ call[t].pc = "done") =>
            LET r == call[t].result IN
            /\ DOMAIN r.hourly_production = 0..23
            /\ DOMAIN r.hourly_efficiency = 0..23
            /\ DOMAIN r.hourly_cost = 0..23
            /\ IsMean(r.production, r.hourly_production)
            /\ IsMean(r.efficiency, r.hourly_efficiency)
            /\ IsRatMean(r.cost, r.hourly_cost)

\* a snapshot built from a 200 with three points, returned in the hour after
\* midnight
C14_Witness ==
    \E t \in Threads :
        /\ call[t].op = "fetch" /\ call[t].pc = "done" /\ call[t].ret = "live"
        /\ call[t].last = Resp(200, TRUE, <<Point(30), Point(10), Point(20)>>)
        /\ call[t].result.timestamp = 86400
        /\ call[t].result.production # Rat(call[t].result.hourly_production[0], 1)

KnownSources == DOMAIN ENERGY_SOURCES

HourlyMapNames == {"hourly_production", "hourly_efficiency", "hourly_cost"}

\* thread t has run the report and holds what it returned
Reported(t) == call[t].op = "report" /\ call[t].pc = "done"

\* the snapshot cached under source has its three hourly maps, none empty
HasAllMaps(source) ==
    /\ source \in DOMAIN cache
    /\ \A name \in HourlyMapNames :
           /\ name \in DOMAIN cache[source].data
           /\ DOMAIN cache[source].data[name] # {}

\* structurally valid: the three maps present, none empty, their values numbers
StructurallyValid(source) ==
    /\ HasAllMaps(source)
    /\ "text" \notin DOMAIN cache[source].data

\* the source has an entry with data that lacks one of the maps or has it empty
LacksMap(source) ==
    /\ source \in DOMAIN cache
    /\ DOMAIN cache[source].data # {}
    /\ ~HasAllMaps(source)

\* the production the sources S have cached for hour h, summed
RECURSIVE ProductionOf(_, _)
ProductionOf(S, h) ==
    IF S = {} THEN 0
    ELSE LET x == CHOOSE y \in S : TRUE
         IN  cache[x].data.hourly_production[h] + ProductionOf(S \ {x}, h)

(* C15: report returns the fixed no-data message if, and only if, no known
   source has an entry in the cache. *)
C15_NoDataIffNothingCached ==
    \A t \in Threads :
        Reported(t) =>
            (call[t].result.head = NoDataMsg <=> KnownSources \cap DOMAIN cache = {})

\* the report run on a cache that holds an unknown source only
C15_Witness ==
    \E t \in Threads :
        /\ Reported(t)
        /\ DOMAIN cache = {"Hydro"}
        /\ call[t].result.head = NoDataMsg

(* C16: when a known source has a cache entry and no cached snapshot is
   structurally valid, report returns the no-valid-data message, with no block
   of a source and no system-wide section. *)
C16_NoValidDataMessage ==
    \A t \in Threads :
        (/\ Reported(t)
         /\ KnownSources \cap DOMAIN cache # {}
         /\ \A source \in KnownSources \cap DOMAIN cache : ~StructurallyValid(source))
        => /\ call[t].result.head = NoValidMsg
           /\ DOMAIN call[t].result.blocks = {}
           /\ ~call[t].result.system.rendered

(* C17 as claimed: a cached source that lacks one of its hourly maps gets no
   block, and the system-wide section is still rendered, from per-hour totals
   that sum the remaining valid sources. *)
C17_SkippedSectionRendered ==
    \A t \in Threads :
        (Reported(t) /\ \E source \in KnownSources : LacksMap(source)) =>
            /\ \A source \in KnownSources :
                   LacksMap(source) => source \notin DOMAIN call[t].result.blocks
            /\ call[t].result.system.rendered
            /\ \A h \in 0..23 :
                   call[t].result.system.totals[h] =
                       ProductionOf({x \in KnownSources : StructurallyValid(x)}, h)

(* C17 amended: a cached source that lacks one of its hourly maps gets no block
   and adds nothing to the totals; when another known source has its three
   maps the system-wide section is rendered, from per-hour totals that sum the
   sources that got a block, and when none has, report returns the
   no-valid-data message. *)
C17_SkippedNotFatal ==
    \A t \in Threads :
        (Reported(t) /\ \E source \in KnownSources : LacksMap(source)) =>
            /\ \A source \in KnownSources :
                   LacksMap(source) => source \notin DOMAIN call[t].result.blocks
            /\ IF \E source \in KnownSources : HasAllMaps(source)
               THEN /\ call[t].result.system.rendered
                    /\ DOMAIN call[t].result.blocks =
                           {x \in KnownSources : StructurallyValid(x)}
                    /\ \A h \in 0..23 :
                           call[t].result.system.totals[h] =
                               ProductionOf(DOMAIN call[t].result.blocks, h)
               ELSE /\ call[t].result.head = NoValidMsg
                    /\ ~call[t].result.system.rendered

\* Solar cached without its efficiency map beside a whole Wind snapshot: the
\* section is rendered from Wind alone
C17_Witness ==
    \E t \in Threads :
        /\ Reported(t)
        /\ DOMAIN cache = {"Solar", "Wind"}
        /\ LacksMap("Solar") /\ StructurallyValid("Wind")
        /\ DOMAIN call[t].result.blocks = {"Wind"}
        /\ call[t].result.system.rendered
        /\ call[t].result.system.totals = cache["Wind"].data.hourly_production

(* C18: for every hour 0..23 the efficiency of Solar is 0.8 * (1 - |h-12|/12)
   from 6 to 18 and 0.1 outside, that of Wind is 0.7 + (h mod 4) * 0.1, within
   0.7 and 1.0, and that of any other source is 0.85; an efficiency e is held
   as e * EffUnit and the equations are multiplied out. *)
C18_EfficiencyFormula ==
    \A t \in Threads :
        call[t].op = "efficiency" =>
            LET e == call[t].result
                h == call[t].hour
            IN  /\ (call[t].arg = "Solar" /\ 6 <= h /\ h <= 18)
                   => e * 10 * 12 = 8 * (12 - Abs(h - 12)) * EffUnit
                /\ (call[t].arg = "Solar" /\ ~(6 <= h /\ h <= 18))
                   => e * 10 = EffUnit
                /\ call[t].arg = "Wind"
                   => /\ e * 10 = (7 + (h % 4)) * EffUnit
                      /\ 7 * EffUnit <= e * 10 /\ e * 10 <= 10 * EffUnit
                /\ call[t].arg \notin {"Solar", "Wind"}
                   => e * 100 = 85 * EffUnit

\* Solar at 18, the last hour of its window: 0.8 * (1 - 6/12) = 0.4
C18_Witness ==
    \E t \in Threads :
        /\ call[t].op = "efficiency" /\ call[t].arg = "Solar" /\ call[t].hour = 18
        /\ call[t].result * 10 = 4 * EffUnit

\* the hour of day of a time in seconds
HourOf(time) == (time \div 3600) % 24

(* C19: on a 200 with a non-empty data array of length n, most recent first,
   for every i in 0..23 the production stored for hour (currentHour - i) mod 24
   is the value of the point at recency index i when i < n and the value of
   the last point when i >= n. *)
C19_RecencyIndex ==
    \A t \in Threads :
        (/\ call[t].op = "fetch" /\ call[t].pc = "done" /\ call[t].ret = "live"
         /\ ~ProcessFellBack(call[t].last.data))
        => LET r == call[t].result
               api_data == call[t].last.data
               n == Len(api_data)
               currentHour == HourOf(r.timestamp)
           IN  \A i \in 0..23 :
                   r.hourly_production[(currentHour - i) % 24] =
                       EffUnit * (IF i < n THEN api_data[i + 1].value
                                           ELSE api_data[n].value)

\* an entry under key k whose age is the TTL or more
Stale(k) == k \in DOMAIN cache /\ now - cache[k].timestamp >= cache_duration

\* a fetch about to test the cache for its source, with attempts left
FetchAtCache(t) ==
    /\ call[t].op = "fetch" /\ call[t].pc = "loop"
    /\ call[t].attempt < call[t].max_retries

\* a recommend call about to test the cache for the fingerprint of its text
RecAtCache(t) ==
    /\ call[t].op = "recommend" /\ call[t].pc = "loop"
    /\ call[t].attempt < call[t].max_retries

\* this step is thread t running the report
ReportStep(t) == Free(t) /\ ncalls' = ncalls + 1 /\ call'[t].op = "report"

(* C20: an entry whose age is the TTL or more is ignored by every reader of the
   cache: fetch treats it as a miss, recommend treats it as a miss, and report
   neither counts its source as having data nor puts it in the per-source or
   the system-wide figures. *)
C20_StaleIgnoredByEveryReader ==
    [][\A t \in Threads :
        /\ (FetchAtCache(t) /\ Stale(call[t].arg) /\ Moves(t))
           => call'[t].pc = "await" /\ call'[t].reqs = call[t].reqs + 1
        /\ (RecAtCache(t) /\ Stale(hash(call[t].arg)) /\ Moves(t))
           => call'[t].ret # "cache"
        /\ ReportStep(t)
           => LET r == call'[t].result IN
              /\ (\A x \in KnownSources : ~Fresh(x)) => r.head = NoDataMsg
              /\ \A x \in KnownSources : Stale(x) => x \notin DOMAIN r.blocks
              /\ r.system.rendered
                 => \A h \in 0..23 :
                        r.system.totals[h] =
                            ProductionOf({x \in KnownSources :
                                             Fresh(x) /\ StructurallyValid(x)}, h)]_vars

(* C20 amended: fetch and recommend treat an entry whose age is the TTL or more
   as a miss; report applies no TTL: a known source with an entry, however old,
   counts as having data, and a stale structurally valid snapshot gets its block
   and enters the system-wide totals as a fresh one does. *)
C20_StaleIgnoredByFetchAndRecommend ==
    [][\A t \in Threads :
        /\ (FetchAtCache(t) /\ Stale(call[t].arg) /\ Moves(t))
           => call'[t].pc = "await" /\ call'[t].reqs = call[t].reqs + 1
        /\ (RecAtCache(t) /\ Stale(hash(call[t].arg)) /\ Moves(t))
           => call'[t].ret # "cache"
        /\ ReportStep(t)
           => LET r == call'[t].result IN
              /\ (\E x \in KnownSources : Stale(x)) => r.head = AnalysisHeader
              /\ \A x \in KnownSources :
                     (Stale(x) /\ StructurallyValid(x)) => x \in DOMAIN r.blocks
              /\ r.system.rendered
                 => \A h \in 0..23 :
                        r.system.totals[h] =
                            ProductionOf({x \in KnownSources :
                                             StructurallyValid(x)}, h)]_vars

\* a report run a TTL after the fetch that cached Solar, with Solar's block in it
C20_Witness ==
    \E t \in Threads :
        /\ Reported(t)
        /\ "Solar" \in DOMAIN cache
        /\ call[t].t_ret - cache["Solar"].timestamp >= cache_duration
        /\ "Solar" \in DOMAIN call[t].result.blocks
        /\ call[t].result.system.totals = cache["Solar"].data.hourly_production

\* this step is fetch call t caching the snapshot it built and returning it
FetchWrites(t) ==
    /\ call[t].op = "fetch" /\ call[t].pc = "await"
    /\ call'[t].pc = "done" /\ call'[t].ret = "live"

\* t's fetch has returned a snapshot it built from a 200 and cached
ReturnedLive(t) == call[t].op = "fetch" /\ call[t].pc = "done" /\ call[t].ret = "live"

(* C21: two callers fetching one source with no synchronization: each write
   puts a whole entry, the time of the write with the payload of the writer,
   in place of what was there, and once both have returned the entry of the
   source is the whole entry one of them wrote. (That both can miss and both
   send a request within one TTL is what the witness reaches.) *)
C21_LastWriteWins ==
    /\ [][\A t \in Threads :
            FetchWrites(t) =>
                cache'[call[t].arg] =
                    [timestamp |-> now', data |-> call'[t].result]]_vars
    /\ [](\A t, u \in Threads :
            (t # u /\ ReturnedLive(t) /\ ReturnedLive(u) /\ call[t].arg = call[u].arg)
            => \E w \in {t, u} :
                   cache[call[t].arg] =
                       [timestamp |-> call[w].t_ret, data |-> call[w].result])

\* both callers missed, both sent one request within the same TTL, both have
\* returned snapshots that differ, and the entry holds the payload of t1
C21_Witness ==
    /\ ReturnedLive("t1") /\ ReturnedLive("t2")
    /\ call["t1"].arg = "Solar" /\ call["t2"].arg = "Solar"
    /\ ~call["t1"].fresh0 /\ ~call["t2"].fresh0
    /\ call["t1"].reqs = 1 /\ call["t2"].reqs = 1
    /\ call["t1"].t_ret - call["t2"].t_call < cache_duration
    /\ call["t2"].t_ret - call["t1"].t_call < cache_duration
    /\ call["t1"].result # call["t2"].result
    /\ cache["Solar"].data = call["t1"].result

\* a 200 whose data array is empty
EmptyOk == Resp(200, TRUE, <<>>)

(* C22: a 200 with an empty data array is a failure that fetch does not retry,
   however many attempts remain: the call ends on it with the fallback
   snapshot, having made no request and no sleep beyond those of the attempts
   before it; when it answers the first request, the call made exactly one
   request and slept not at all. *)
C22_EmptyOkNotRetried ==
    \A t \in Threads :
        (call[t].op = "fetch" /\ call[t].last = EmptyOk) =>
            /\ call[t].pc = "done"
            /\ SynthesizedFor(call[t].result, call[t].arg)
            /\ call[t].reqs = call[t].attempt + 1
            /\ call[t].slept = Pow2(call[t].attempt) - 1
            /\ call[t].answers = 1 => (call[t].reqs = 1 /\ call[t].slept = 0)

\* the first request of a call with three attempts answered by an empty 200
C22_Witness ==
    \E t \in Threads :
        /\ call[t].op = "fetch" /\ call[t].pc = "done"
        /\ call[t].last = EmptyOk /\ call[t].answers = 1
        /\ call[t].max_retries = 3
        /\ call[t].reqs = 1 /\ call[t].slept = 0
        /\ SynthesizedFor(call[t].result, call[t].arg)

(* C23: the sleep between failed attempt k and attempt k+1 of a fetch is 2^k
   seconds, so after k retries the call has slept 2^k - 1; no sleep follows
   the last attempt, so the call never sleeps more than 2^(max_retries-1) - 1
   in all, 3 for the default budget of 3; and the time a sequential call takes
   is the time it slept. *)
C23_BackoffDoubles ==
    \A t \in Threads :
        call[t].op = "fetch" =>
            /\ call[t].slept = Pow2(call[t].attempt) - 1
            /\ call[t].max_retries = 0 => call[t].slept = 0
            /\ call[t].max_retries >= 1 =>
                   /\ call[t].attempt <= call[t].max_retries - 1
                   /\ call[t].slept <= Pow2(call[t].max_retries - 1) - 1
            /\ call[t].max_retries = fetch_max_retries => call[t].slept <= 3
            /\ call[t].pc = "done" => call[t].t_ret - call[t].t_call = call[t].slept

\* a call with the default budget whose three attempts each met a 500: it slept
\* 1 and 2 and returned on the third
C23_Witness ==
    \E t \in Threads :
        /\ call[t].op = "fetch" /\ call[t].pc = "done"
        /\ call[t].max_retries = fetch_max_retries
        /\ call[t].all_500 /\ call[t].answers = 3
        /\ call[t].slept = 3
        /\ call[t].t_ret - call[t].t_call = 3

(* C24: no operation removes a cache entry: over every step of fetch,
   recommend, report and the clock the keys of the cache only grow and an
   entry changes only by being written anew with the time of the write; a
   lookup that finds a stale entry leaves the cache as it is; and a write
   under a new key adds that key whatever the number of entries, with no
   other entry evicted to make room. *)
C24_NoEntryRemoved ==
    [][/\ DOMAIN cache \subseteq DOMAIN cache'
       /\ \A k \in DOMAIN cache :
              cache'[k] # cache[k] => cache'[k].timestamp = now'
       /\ \A k \in DOMAIN cache' \ DOMAIN cache :
              /\ cache'[k].timestamp = now'
              /\ Cardinality(DOMAIN cache') = Cardinality(DOMAIN cache) + 1
       /\ \A t \in Threads :
              (FetchAtCache(t) /\ Stale(call[t].arg) /\ Moves(t)) => cache' = cache
       /\ \A t \in Threads : ReportStep(t) => cache' = cache]_vars

\* a fetch of Hydro wrote a second key a TTL after Solar was cached: the stale
\* entry of Solar is still there
C24_Witness ==
    /\ DOMAIN cache = {"Solar", "Hydro"}
    /\ Stale("Solar") /\ Fresh("Hydro")
    /\ \E t \in Threads : ReturnedLive(t) /\ call[t].arg = "Hydro"

(* C25: whenever a known source is cached with a structurally valid snapshot,
   the report ends with a system-wide block that gives the total average
   production, the mean of the 24 per-hour totals over the valid sources, the
   peak-demand hour and the lowest-demand hour with their values, and the ratio
   of peak to average, 0 when the average is 0. *)
C25_SystemBlock ==
    \A t \in Threads :
        (Reported(t) /\ \E x \in KnownSources : StructurallyValid(x)) =>
            LET sys == call[t].result.system
                valid == {x \in KnownSources : StructurallyValid(x)}
            IN  /\ sys.rendered /\ sys.has_totals
                /\ \A h \in 0..23 : sys.totals[h] = ProductionOf(valid, h)
                /\ IsMean(sys.total_avg, sys.totals)
                /\ \A h \in 0..23 : sys.totals[h] <= sys.totals[sys.peak_hour]
                /\ \A h \in 0..23 : sys.totals[h] >= sys.totals[sys.low_hour]
                /\ IF sys.total_avg.num = 0
                   THEN sys.ratio = Rat(0, 1)
                   ELSE RatEq(sys.ratio,
                              Rat(sys.totals[sys.peak_hour] * sys.total_avg.den,
                                  sys.total_avg.num))

\* how many hours before the hour of the report the hour h lies
Age(t, h) == (HourOf(start + call[t].t_ret) - h) % 24

(* C26: for each source with a block, the peak-production hour the report
   names is the first hour, from the oldest to the newest of the 24 hours that
   end at the current hour, whose production is the maximum, and the lowest-
   production hour is the first in that order whose production is the minimum. *)
C26_FirstPeakAndLow ==
    \A t \in Threads :
        Reported(t) =>
            \A x \in DOMAIN call[t].result.blocks :
                LET p == cache[x].data.hourly_production
                    peak == call[t].result.blocks[x].peak_prod_hour
                    low == call[t].result.blocks[x].low_prod_hour
                IN  /\ \A h \in 0..23 :
                           /\ p[h] <= p[peak]
                           /\ Age(t, h) > Age(t, peak) => p[h] < p[peak]
                    /\ \A h \in 0..23 :
                           /\ p[h] >= p[low]
                           /\ Age(t, h) > Age(t, low) => p[h] > p[low]

\* a report in the hour after midnight on the synthesized snapshot of Solar,
\* whose production is least, and the same, at 0 and at 1: 1 is the older
C26_Witness ==
    \E t \in Threads :
        /\ Reported(t)
        /\ HourOf(start + call[t].t_ret) = 0
        /\ "Solar" \in DOMAIN call[t].result.blocks
        /\ cache["Solar"].data.hourly_production[0] =
               cache["Solar"].data.hourly_production[1]
        /\ call[t].result.blocks["Solar"].low_prod_hour = 1

(* C27: the report only reads: in every state a run of it sends no request,
   sleeps not at all and leaves every cache entry, its key, its timestamp and
   its payload, as it was, and the calls of the other threads with it. *)
C27_ReportReadsOnly ==
    [][\A t \in Threads :
        ReportStep(t) =>
            /\ cache' = cache
            /\ now' = now
            /\ call'[t].pc = "done"
            /\ call'[t].reqs = 0 /\ call'[t].slept = 0
            /\ call'[t].t_ret = call'[t].t_call
            /\ \A u \in Threads \ {t} : call'[u] = call[u]]_vars

\* a report run a TTL after the entries were written, which still bear the
\* time of their writing
C27_Witness ==
    \E t \in Threads :
        /\ Reported(t)
        /\ call[t].t_ret = cache_duration
        /\ call[t].reqs = 0 /\ call[t].slept = 0
        /\ DOMAIN cache # {}
        /\ \A k \in DOMAIN cache : cache[k].timestamp = 0

\* this step is the end of the update loop of thread t
LoopEnds(t) == app.loop[t].pc = "run" /\ app'.loop[t].pc = "off"

(* C28: every value fetch returns, live or synthesized, has the six fields the
   driver's validation asks for; hence every update loop ends having counted
   every known source as fetched, with the data of each kept, and schedules a
   recommendation request, however the upstream answered. *)
C28_EveryFetchValidates ==
    /\ [](\A t \in Threads :
            (call[t].op = "fetch" /\ call[t].pc = "done")
            => {"production", "efficiency", "cost", "hourly_production",
                "hourly_efficiency", "hourly_cost"} \subseteq DOMAIN call[t].result)
    /\ [][\A t \in Threads :
            LoopEnds(t) =>
                /\ app.loop[t].successful_fetches = Cardinality(KnownSources)
                /\ KnownSources \subseteq app.sources_data
                /\ app'.recs = app.recs + 1
                /\ app'.errors = app.errors]_vars

\* a loop has ended and scheduled the recommendations although the fetch of
\* Solar fell back and cached nothing
C28_Witness ==
    /\ app.recs = 1
    /\ "Solar" \notin DOMAIN cache
    /\ "Wind" \in DOMAIN cache
    /\ "Solar" \in app.sources_data

\* the refresh chains alive: the loops that run and the timers that will start one
Chains == Cardinality({t \in Threads : app.loop[t].pc # "off"}) + Len(app.timers)

(* C29: every run of the update loop ends by setting exactly one timer for
   the next start_realtime_updates, update_interval later, so a chain once
   started never ends; each manual trigger starts one more, so the chains
   alive are one plus the manual triggers and never fewer than before; and two
   loops can be inside fetch on the same fetcher at once. *)
C29_ChainsNeverEnd ==
    /\ [](Chains = 1 + app.triggers)
    /\ [][\A t \in Threads :
            LoopEnds(t) =>
                /\ Len(app'.timers) = Len(app.timers) + 1
                /\ app'.timers[Len(app'.timers)] = now + update_interval]_vars
    /\ [][Chains' >= Chains]_vars

\* after one manual trigger two loops wait for the answer to their request
\* for the same source
C29_Witness ==
    /\ app.triggers = 1
    /\ call["t1"].op = "fetch" /\ call["t1"].pc = "await"
    /\ call["t2"].op = "fetch" /\ call["t2"].pc = "await"
    /\ call["t1"].arg = call["t2"].arg
    /\ Chains = 2

(* C30: for every source name and every hour 0..23 the efficiency is at least
   0.1, so the cost never takes the branch of an efficiency that is not above
   0, and the hourly cost of the live path and that of the fallback path are
   both baseCost(source) / efficiency, with the base cost of ENERGY_SOURCES
   and 0.1 for a source it lacks. *)
C30_CostIsBaseOverEfficiency ==
    \A t \in Threads :
        call[t].op = "cost" =>
            LET e == call[t].efficiency
                baseCost == IF call[t].arg \in DOMAIN ENERGY_SOURCES
                            THEN ENERGY_SOURCES[call[t].arg].base_cost
                            ELSE 10
                quotient == Rat(baseCost * EffUnit, CostUnit * e)
            IN  /\ e * 10 >= EffUnit
                /\ RatEq(call[t].live, quotient)
                /\ RatEq(call[t].fallback, quotient)

\* Coal at noon: 0.15 / 0.85 on both paths
C30_Witness ==
    \E t \in Threads :
        /\ call[t].op = "cost" /\ call[t].arg = "Coal" /\ call[t].hour = 12
        /\ call[t].live = Rat(15 * EffUnit, CostUnit * 102)
        /\ call[t].fallback = call[t].live

====
